---- MODULE Spec2Model ----
(***************************************************************************)
(* Line breaking of render.objects.text.Text: Text.__init__ calls          *)
(* Text.cut, which splits the text on hard line breaks and runs            *)
(* Text._split_line on every physical line.  _split_line is recursive;     *)
(* each of its calls is one step of the machine below: the argument of     *)
(* the pending call is `rest`, the lines already produced by the           *)
(* enclosing calls are `splitted`.                                         *)
(*                                                                         *)
(* A text is a sequence of code points, a code point is a one-character    *)
(* string.  Indices named as in the source (bound, prev, next) are the     *)
(* source's 0-based indices; At/Prefix/Suffix translate them.              *)
(***************************************************************************)
EXTENDS Integers, Sequences, FiniteSets, TLC

VARIABLES text, font, max_width, hyphenation, dict,
          pc, lines, i, rest, splitted, res, inserted, branch

vars == <<text, font, max_width, hyphenation, dict,
          pc, lines, i, rest, splitted, res, inserted, branch>>

----------------------------------------------------------------------------
(* Bounds of the checked instance *)

\* longest enumerated input text
MaxLen == 4
\* largest enumerated width budget, in units of 10 pixels
MaxBudget == 4

----------------------------------------------------------------------------
(* Code points and their classes *)

\* max_width: Optional[int]; None is the empty sequence, an integer w is <<w>>
None == <<>>
Some(w) == <<w>>

Newline == "\n"
Space == " "
Hyphen == "-"

\* string.ascii_letters, restricted to the letters the inputs use
AsciiLetters == {"a", "b", "d", "e", "h", "i", "l", "o", "r", "u", "w", "y"}

\* the ASCII members of Text.MARKS (the set also holds the full-width forms
\* of the same marks, which are classified the same way)
MARKS == {".", ",", "!", "?", ";", ":"}

\* the code points of the enumerated input texts
Alphabet == {"a", "b", Space, ",", Newline}

\* text[k], text[:k], text[k:] for a 0-based k
At(t, k) == t[k + 1]
Prefix(t, k) == SubSeq(t, 1, k)
Suffix(t, k) == SubSeq(t, k + 1, Len(t))

----------------------------------------------------------------------------
(* Width measurer *)

Fonts == {"mono", "prop"}

\* font.getsize of one code point: "mono" is a fixed-width font of 10px per
\* code point, "prop" a proportional one
CharWidth(f, c) ==
    IF f = "mono" THEN 10
    ELSE CASE c = "b" -> 20
           [] c = "a" -> 10
           [] c \in {Space, ",", Hyphen} -> 5
           [] OTHER -> 10

RECURSIVE _calculate_width(_, _)
_calculate_width(f, t) ==
    IF t = <<>> THEN 0
    ELSE CharWidth(f, Head(t)) + _calculate_width(f, Tail(t))

----------------------------------------------------------------------------
(* Rightmost-fit search: binary search over a non-decreasing sequence of   *)
(* keys; the result is the number of leading keys that are <= x, so the    *)
(* caller finds the rightmost fitting element at result - 1.               *)

RECURSIVE Bisect(_, _, _, _)
Bisect(keys, x, lo, hi) ==
    IF lo >= hi THEN lo
    ELSE LET mid == (lo + hi) \div 2
         IN  IF At(keys, mid) <= x
             THEN Bisect(keys, x, mid + 1, hi)
             ELSE Bisect(keys, x, lo, mid)

find_rightmost(keys, x) == Bisect(keys, x, 0, Len(keys))

----------------------------------------------------------------------------
(* str.rstrip(" "), str.lstrip(" "), str.splitlines() *)

RECURSIVE rstrip(_)
rstrip(t) ==
    IF t # <<>> /\ t[Len(t)] = Space THEN rstrip(Prefix(t, Len(t) - 1)) ELSE t

RECURSIVE lstrip(_)
lstrip(t) ==
    IF t # <<>> /\ Head(t) = Space THEN lstrip(Tail(t)) ELSE t

\* length of the first physical line of t (up to its first hard break)
RECURSIVE LineEnd(_)
LineEnd(t) ==
    IF t = <<>> \/ Head(t) = Newline THEN 0 ELSE 1 + LineEnd(Tail(t))

\* a final hard break does not open one more (empty) physical line
RECURSIVE splitlines(_)
splitlines(t) ==
    IF t = <<>> THEN <<>>
    ELSE LET n == LineEnd(t)
         IN  <<Prefix(t, n)>> \o splitlines(Suffix(t, n + 1))

----------------------------------------------------------------------------
(* Hyphenation provider: a dictionary is the set of letter pairs between   *)
(* which a word may be cut.                                                *)

SomePatterns == {<<"a", "b">>, <<"l", "l">>}
AllPatterns == AsciiLetters \X AsciiLetters
Dicts == {SomePatterns, AllPatterns}

\* the positions of word, ascending, at which d allows a cut
RECURSIVE CutPositions(_, _, _)
CutPositions(d, word, p) ==
    IF p >= Len(word) THEN <<>>
    ELSE (IF <<word[p], word[p + 1]>> \in d THEN <<p>> ELSE <<>>)
         \o CutPositions(d, word, p + 1)

\* list(cls._dict.iterate(word)) sorted by the length of the first part
Cuts(d, word) ==
    LET ps == CutPositions(d, word, 1)
    IN  [k \in 1..Len(ps) |-> <<Prefix(word, ps[k]), Suffix(word, ps[k])>>]

\* variant: the candidate is measured without the hyphen it will carry
CutWidthNoHyphen(f, first) == _calculate_width(f, first)

\* the width the word splitter measures for a candidate first part
CutWidth(f, first) == _calculate_width(f, first \o <<Hyphen>>)

_split_word(f, d, word, budget) ==
    LET cuts == Cuts(d, word)
        cut_bound == find_rightmost(
            [k \in 1..Len(cuts) |-> CutWidth(f, cuts[k][1])], budget)
    IN  IF cut_bound = 0 \/ cuts = <<>>
        THEN <<<<>>, word>>
        ELSE <<cuts[cut_bound][1] \o <<Hyphen>>, cuts[cut_bound][2]>>

----------------------------------------------------------------------------
(* One call of Text._split_line *)

\* the candidate bound: the search over the prefix lengths 0..len(text)-1
SearchBound(f, t, W) ==
    find_rightmost([k \in 1..Len(t) |-> _calculate_width(f, Prefix(t, k - 1))], W)

\* variants: the candidate bound is never corrected / always stepped back
CorrectBoundNever(f, t, W, bound) == bound
CorrectBoundAlways(f, t, W, bound) == bound - 1

\* step back when the prefix of the candidate length does not fit
CorrectBound(f, t, W, bound) ==
    IF _calculate_width(f, Prefix(t, bound)) > W THEN bound - 1 ELSE bound

\* variant: a bound of 0 is not fatal
UnsplittableStrict(bound) == bound < 0

\* the condition of the fatal error
Unsplittable(bound) == bound <= 0

\* while prev >= 0 and text[prev] in string.ascii_letters: prev -= 1
RECURSIVE WalkBack(_, _)
WalkBack(t, prev) ==
    IF prev >= 0 /\ At(t, prev) \in AsciiLetters
    THEN WalkBack(t, prev - 1) ELSE prev

\* while next < len(text) and text[next] in string.ascii_letters: next += 1
RECURSIVE WalkForward(_, _)
WalkForward(t, next) ==
    IF next < Len(t) /\ At(t, next) \in AsciiLetters
    THEN WalkForward(t, next + 1) ELSE next

\* [prev, next): the word around the letter at bound
WordStart(t, bound) == WalkBack(t, bound) + 1
WordEnd(t, bound) == WalkForward(t, bound)

\* variant: the bound stays on the mark
MarkWalkBackSkip(t, bound) == bound

\* the bound of a mark that does not fit moves to the start of the letter
\* run before the mark
MarkWalkBack(t, bound) == WalkBack(t, bound - 1) + 1

\* variant: no fallback to the original bound
FailGuardMissing(bound, original_bound) == bound

\* "failed somewhere, give up"
FailGuard(bound, original_bound) ==
    IF bound = 0 THEN original_bound ELSE bound

\* variants: the emitted line loses its trailing marks too / the remainder
\* keeps its leading spaces
RECURSIVE rstrip_marks(_)
rstrip_marks(t) ==
    IF t # <<>> /\ t[Len(t)] \in {Space} \cup MARKS
    THEN rstrip_marks(Prefix(t, Len(t) - 1)) ELSE t
PlainLineTrimMarks(t, bound) == rstrip_marks(Prefix(t, bound))
PlainRestKeepSpaces(t, bound) == Suffix(t, bound)

\* the line a plain cut at bound emits, and the text the call recurses on
PlainLine(t, bound) == rstrip(Prefix(t, bound))
PlainRest(t, bound) == lstrip(Suffix(t, bound))

\* the line a hyphenated cut emits, and the text the call recurses on
HyphenLine(t, prev, first) == Prefix(t, prev) \o first
HyphenRest(t, next, second) == second \o Suffix(t, next)

NoBranch ==
    [letter |-> "none", mark |-> "none", mark_bound |-> 0,
     original_bound |-> 0, guard |-> FALSE]

\* What one call does with text t: kind is "empty" (return []), "raise",
\* "whole" (return [text]), "hyphen" or "plain" (emit line, recurse on rest);
\* branch records the boundary refinements the call went through.
_split_line(f, d, t, W, h) ==
    LET bound0 == CorrectBound(f, t, W, SearchBound(f, t, W))
    IN
    IF Len(t) = 0 THEN
        [kind |-> "empty", line |-> <<>>, rest |-> <<>>, branch |-> NoBranch]
    ELSE IF Unsplittable(bound0) THEN
        [kind |-> "raise", line |-> <<>>, rest |-> <<>>, branch |-> NoBranch]
    ELSE IF bound0 = Len(t) THEN
        [kind |-> "whole", line |-> t, rest |-> <<>>, branch |-> NoBranch]
    ELSE
    LET original_bound == bound0
        isLetter == At(t, bound0) \in AsciiLetters
        prev == WordStart(t, bound0)
        next == WordEnd(t, bound0)
        word == SubSeq(t, prev + 1, next)
        isWord == isLetter /\ Len(word) > 1
        sw == _split_word(f, d, word, W - _calculate_width(f, Prefix(t, prev)))
        hyphenate == isWord /\ h /\ sw[1] # <<>>
        letter == IF ~isLetter THEN "none"
                  ELSE IF ~isWord THEN "single"
                  ELSE IF hyphenate THEN "hyphen" ELSE "whole"
        bound1 == IF isWord THEN prev ELSE bound0
        isMark == At(t, bound1) \in MARKS
        extend == isMark /\ _calculate_width(f, Prefix(t, bound1 + 1)) <= W
        bound2 == IF ~isMark THEN bound1
                  ELSE IF extend THEN bound1 + 1
                  ELSE MarkWalkBack(t, bound1)
        bound3 == FailGuard(bound2, original_bound)
    IN
    IF hyphenate THEN
        [kind |-> "hyphen",
         line |-> HyphenLine(t, prev, sw[1]),
         rest |-> HyphenRest(t, next, sw[2]),
         branch |-> [letter |-> letter, mark |-> "none", mark_bound |-> 0,
                     original_bound |-> original_bound, guard |-> FALSE]]
    ELSE
        [kind |-> "plain",
         line |-> PlainLine(t, bound3),
         rest |-> PlainRest(t, bound3),
         branch |-> [letter |-> letter,
                     mark |-> IF ~isMark THEN "none"
                              ELSE IF extend THEN "extend" ELSE "walkback",
                     mark_bound |-> bound1,
                     original_bound |-> original_bound,
                     guard |-> bound2 = 0]]

----------------------------------------------------------------------------
(* Text._split_line and Text.cut as functions of their arguments: the      *)
(* whole recursion, and the loop over the physical lines.  A result is     *)
(* [raised, lines]; a raised call has no lines.                            *)

RECURSIVE SplitAll(_, _, _, _, _)
SplitAll(f, d, t, W, h) ==
    LET c == _split_line(f, d, t, W, h)
    IN  CASE c.kind = "empty" -> [raised |-> FALSE, lines |-> <<>>]
          [] c.kind = "raise" -> [raised |-> TRUE, lines |-> <<>>]
          [] c.kind = "whole" -> [raised |-> FALSE, lines |-> <<c.line>>]
          [] OTHER ->
                LET r == SplitAll(f, d, c.rest, W, h)
                IN  IF r.raised THEN r
                    ELSE [raised |-> FALSE, lines |-> <<c.line>> \o r.lines]

RECURSIVE CutLines(_, _, _, _, _)
CutLines(f, d, ls, W, h) ==
    IF ls = <<>> THEN [raised |-> FALSE, lines |-> <<>>]
    ELSE LET first == SplitAll(f, d, Head(ls), W, h)
             others == CutLines(f, d, Tail(ls), W, h)
         IN  IF first.raised \/ others.raised
             THEN [raised |-> TRUE, lines |-> <<>>]
             ELSE [raised |-> FALSE, lines |-> first.lines \o others.lines]

cut(f, d, t, mw, h) ==
    IF mw = None THEN [raised |-> FALSE, lines |-> splitlines(t)]
    ELSE CutLines(f, d, splitlines(t), mw[1], h)

----------------------------------------------------------------------------
(* Inputs *)

Texts == UNION {[1..n -> Alphabet] : n \in 0..MaxLen}
Budgets == {None} \cup {Some(10 * k) : k \in -1..MaxBudget}

HelloWorld == <<"h", "e", "l", "l", "o", " ", "w", "o", "r", "l", "d">>
HiYou == <<"h", "i", ",", " ", "y", "o", "u", "!">>
Examples == {HelloWorld, HiYou}
ExampleBudgets == {Some(30), Some(45), Some(50)}

\* Text.__init__ is entered with its arguments; nothing is cut yet
InitWith(ts, fs, ws) ==
    /\ text \in ts
    /\ font \in fs
    /\ max_width \in ws
    /\ hyphenation \in BOOLEAN
    /\ dict \in Dicts
    \* the dictionary is read only when hyphenation is on
    /\ hyphenation \/ dict = SomePatterns
    /\ pc = "init"
    /\ lines = <<>>
    /\ i = 0
    /\ rest = <<>>
    /\ splitted = <<>>
    /\ res = <<>>
    /\ inserted = <<>>
    /\ branch = NoBranch

Init ==
    \/ InitWith(Texts, Fonts, Budgets)
    \/ InitWith(Examples, {"mono"}, ExampleBudgets)

----------------------------------------------------------------------------
(* Text.cut *)

\* max_width is None: the physical lines are the result
CutUnbounded ==
    /\ pc = "init"
    /\ max_width = None
    /\ lines' = splitlines(text)
    /\ res' = splitlines(text)
    /\ pc' = "done"
    /\ UNCHANGED <<text, font, max_width, hyphenation, dict, i, rest,
                   splitted, inserted, branch>>

CutBegin ==
    /\ pc = "init"
    /\ max_width # None
    /\ lines' = splitlines(text)
    /\ i' = 1
    /\ pc' = "loop"
    /\ UNCHANGED <<text, font, max_width, hyphenation, dict, rest,
                   splitted, res, inserted, branch>>

\* for line in lines: the call self._split_line(font, line, ...)
CutCall ==
    /\ pc = "loop"
    /\ i <= Len(lines)
    /\ rest' = lines[i]
    /\ splitted' = <<>>
    /\ inserted' = <<>>
    /\ branch' = NoBranch
    /\ pc' = "split"
    /\ UNCHANGED <<text, font, max_width, hyphenation, dict, lines, i, res>>

\* res.extend(splitted)
CutExtend ==
    /\ pc = "ret"
    /\ res' = res \o splitted
    /\ i' = i + 1
    /\ pc' = "loop"
    /\ UNCHANGED <<text, font, max_width, hyphenation, dict, lines, rest,
                   splitted, inserted, branch>>

CutReturn ==
    /\ pc = "loop"
    /\ i > Len(lines)
    /\ pc' = "done"
    /\ UNCHANGED <<text, font, max_width, hyphenation, dict, lines, i, rest,
                   splitted, res, inserted, branch>>

----------------------------------------------------------------------------
(* Text._split_line, one action per outcome of a call *)

Call == _split_line(font, dict, rest, max_width[1], hyphenation)

SplitEmpty ==
    /\ pc = "split"
    /\ Call.kind = "empty"
    /\ pc' = "ret"
    /\ branch' = Call.branch
    /\ UNCHANGED <<text, font, max_width, hyphenation, dict, lines, i, rest,
                   splitted, res, inserted>>

\* the ValueError leaves cut and __init__: there is no result
SplitRaise ==
    /\ pc = "split"
    /\ Call.kind = "raise"
    /\ pc' = "raised"
    /\ splitted' = <<>>
    /\ inserted' = <<>>
    /\ res' = <<>>
    /\ branch' = Call.branch
    /\ UNCHANGED <<text, font, max_width, hyphenation, dict, lines, i, rest>>

SplitWhole ==
    /\ pc = "split"
    /\ Call.kind = "whole"
    /\ splitted' = Append(splitted, Call.line)
    /\ inserted' = Append(inserted, FALSE)
    /\ rest' = Call.rest
    /\ branch' = Call.branch
    /\ pc' = "ret"
    /\ UNCHANGED <<text, font, max_width, hyphenation, dict, lines, i, res>>

SplitHyphen ==
    /\ pc = "split"
    /\ Call.kind = "hyphen"
    /\ splitted' = Append(splitted, Call.line)
    /\ inserted' = Append(inserted, TRUE)
    /\ rest' = Call.rest
    /\ branch' = Call.branch
    /\ UNCHANGED <<text, font, max_width, hyphenation, dict, pc, lines, i, res>>

SplitPlain ==
    /\ pc = "split"
    /\ Call.kind = "plain"
    /\ splitted' = Append(splitted, Call.line)
    /\ inserted' = Append(inserted, FALSE)
    /\ rest' = Call.rest
    /\ branch' = Call.branch
    /\ UNCHANGED <<text, font, max_width, hyphenation, dict, pc, lines, i, res>>

Next ==
    \/ CutUnbounded
    \/ CutBegin
    \/ CutCall
    \/ CutExtend
    \/ CutReturn
    \/ SplitEmpty
    \/ SplitRaise
    \/ SplitWhole
    \/ SplitHyphen
    \/ SplitPlain

Spec == Init /\ [][Next]_vars

----------------------------------------------------------------------------
(* Properties *)

\* the width budget of a bounded cut
Budget == max_width[1]
Bounded == max_width # None
Fits(t) == _calculate_width(font, t) <= Budget

\* the physical line the current call of _split_line was made on
Line == lines[i]

\* the line with the hyphen the word splitter appended taken off again
Unhyphenated(l, ins) == IF ins THEN Prefix(l, Len(l) - 1) ELSE l

\* ls, in order, is exactly input cut into pieces: every piece is the next
\* part of input; a hyphenated piece carries one "-" more and is followed
\* at once by the next piece; after any other piece a run of spaces, and
\* nothing else, is left out
RECURSIVE Covers(_, _, _)
Covers(input, ls, ins) ==
    IF ls = <<>> THEN input = <<>>
    ELSE LET l == Head(ls)
             piece == Unhyphenated(l, Head(ins))
             n == Len(piece)
         IN  /\ n <= Len(input)
             /\ Prefix(input, n) = piece
             /\ IF Head(ins)
                THEN /\ l[Len(l)] = Hyphen
                     /\ Covers(Suffix(input, n), Tail(ls), Tail(ins))
                ELSE Covers(lstrip(Suffix(input, n)), Tail(ls), Tail(ins))

RECURSIVE NonSpaces(_)
NonSpaces(t) ==
    IF t = <<>> THEN <<>>
    ELSE (IF Head(t) = Space THEN <<>> ELSE <<Head(t)>>) \o NonSpaces(Tail(t))

RECURSIVE Joined(_, _)
Joined(ls, ins) ==
    IF ls = <<>> THEN <<>>
    ELSE Unhyphenated(Head(ls), Head(ins)) \o Joined(Tail(ls), Tail(ins))

\* C1: when a call of _split_line on a physical line has returned, every
\* line it returned (plain, hyphenated, cut at the original bound, the
\* final remainder) measures at most max_width.
C1_WidthBound ==
    (Bounded /\ pc = "ret") => \A k \in 1..Len(splitted) : Fits(splitted[k])

\* a returned call with a hyphenated line, a later line, and a line that
\* fills the budget exactly
C1_Witness ==
    /\ Bounded /\ pc = "ret"
    /\ Len(splitted) >= 3
    /\ \E k \in 1..Len(splitted) : inserted[k]
    /\ \E k \in 1..Len(splitted) : _calculate_width(font, splitted[k]) = Budget

\* C2: when a call of _split_line on a physical line has returned, the
\* returned lines, without the hyphens the word splitter appended, are the
\* physical line with runs of spaces left out at line breaks only; the
\* other code points all appear once, in their order.
C2_NoTextDropped ==
    (Bounded /\ pc = "ret") =>
        /\ Covers(Line, splitted, inserted)
        /\ NonSpaces(Joined(splitted, inserted)) = NonSpaces(Line)

\* a returned call that hyphenated a word and left spaces out at a break
C2_Witness ==
    /\ Bounded /\ pc = "ret"
    /\ \E k \in 1..Len(splitted) : inserted[k]
    /\ Len(Joined(splitted, inserted)) < Len(Line)
    /\ Len(splitted) >= 3

\* C3: every recursive call of _split_line is made on a strictly shorter
\* text than the call that makes it, and a call that returns has returned
\* at most as many lines as the physical line has code points.
C3_Progress ==
    [][ /\ (pc = "split" /\ pc' = "split") => Len(rest') < Len(rest)
        /\ (pc' = "ret") => Len(splitted') <= Len(lines'[i']) ]_vars

\* a call that returned as many lines as the physical line has code
\* points, some of them hyphenated
C3_Witness ==
    /\ pc = "ret"
    /\ Len(splitted) = Len(Line)
    /\ Len(splitted) >= 3
    /\ \E k \in 1..Len(splitted) : inserted[k]

\* a code point that does not fit within max_width even alone
TooWide(c) == CharWidth(font, c) > Budget
HasWideCodePoint(t) == \E k \in 1..Len(t) : TooWide(t[k])

\* t[s..e] is a word of t: a maximal run of ASCII letters
IsWordOf(t, s, e) ==
    /\ s <= e
    /\ \A k \in s..e : t[k] \in AsciiLetters
    /\ s = 1 \/ t[s - 1] \notin AsciiLetters
    /\ e = Len(t) \/ t[e + 1] \notin AsciiLetters

\* a word of t that does not fit within max_width alone and that the word
\* splitter does not cut (hyphenation is off, or no candidate fits)
HasUncutWideWord(t) ==
    \E s \in 1..Len(t) : \E e \in s..Len(t) :
        /\ IsWordOf(t, s, e)
        /\ ~Fits(SubSeq(t, s, e))
        /\ \/ ~hyphenation
           \/ _split_word(font, dict, SubSeq(t, s, e), Budget)[1] = <<>>

C5_Original ==
    (Bounded /\ pc = "ret") =>
        \A k \in 2..Len(splitted) :
            splitted[k] = <<>> \/ splitted[k][1] \notin MARKS

\* the code point before the one the text rest' starts with, in the text
\* rest of the call that recurses on rest'
BeforeBreak == rest[Len(rest) - Len(rest')]

AllLetters(t) == \A k \in 1..Len(t) : t[k] \in AsciiLetters

\* C5 (amended): when the text a call recurses on begins with a Mark, the
\* Mark follows a code point that is no letter, or the line the call
\* emitted is nothing but the letters before the Mark (the word began the
\* text of the call, there was no earlier place to break); and for
\* "hi, you!" under a budget that "hi," fits, no line begins with ",".
C5_MarkRetention ==
    /\ [][ (pc = "split" /\ pc' = "split" /\ rest' # <<>>
              /\ rest'[1] \in MARKS)
           => \/ BeforeBreak \notin AsciiLetters
              \/ /\ AllLetters(splitted'[Len(splitted')])
                 /\ splitted'[Len(splitted')]
                        = Prefix(rest, Len(rest) - Len(rest')) ]_vars
    /\ [](text = HiYou =>
            /\ \A k \in 1..Len(splitted) :
                   splitted[k] = <<>> \/ splitted[k][1] # ","
            /\ pc \in {"ret", "done"} => splitted[1] = <<"h", "i", ",">>)

\* the walk back from a Mark reached the start of the text, the original
\* bound was used, and the Mark begins the text of the next call
C5_Witness ==
    /\ pc = "split"
    /\ branch.mark = "walkback"
    /\ branch.guard
    /\ rest # <<>>
    /\ rest[1] \in MARKS

\* every physical line of the text fits within max_width
AllFit == \A k \in 1..Len(splitlines(text)) : Fits(splitlines(text)[k])

\* C6: when every physical line fits within a positive max_width,
\* cut(text, max_width) is cut(text, None): one unchanged line per
\* physical line, the empty physical lines included.
C6_HardBreaks ==
    (Bounded /\ Budget > 0 /\ pc = "done" /\ AllFit) => res = splitlines(text)

\* "\n".join(ls)
RECURSIVE JoinLines(_)
JoinLines(ls) ==
    IF ls = <<>> THEN <<>>
    ELSE IF Len(ls) = 1 THEN Head(ls)
    ELSE Head(ls) \o <<Newline>> \o JoinLines(Tail(ls))

\* C7: cutting the lines of a cut, joined by hard breaks, again with the
\* same positive budget and hyphenation setting returns the same lines.
C7_Idempotent ==
    (Bounded /\ Budget > 0 /\ pc = "done") =>
        cut(font, dict, JoinLines(res), max_width, hyphenation)
            = [raised |-> FALSE, lines |-> res]

\* the two lines of Example 1
Hello == <<"h", "e", "l", "l", "o">>
World == <<"w", "o", "r", "l", "d">>

IsExample1(mw) ==
    /\ text = HelloWorld
    /\ font = "mono"
    /\ max_width = Some(mw)
    /\ pc = "done"

\* C8 (as stated): at 10px per code point, "hello world" with max_width 45
\* is cut into "hello" and "world".
C8_Original == IsExample1(45) => res = <<Hello, World>>

\* C8 (amended): "hello" measures 50px; with max_width 50 the text is cut
\* into "hello" and "world" under either hyphenation setting, the space at
\* the break left out; with max_width 45 and hyphenation off it is cut
\* into "hell", "o", "worl", "d".
C8_Example1 ==
    /\ IsExample1(50) => res = <<Hello, World>>
    /\ (IsExample1(45) /\ ~hyphenation) =>
           res = <<Prefix(Hello, 4), <<"o">>, Prefix(World, 4), <<"d">>>>

C8_Witness == IsExample1(50) /\ hyphenation /\ Len(res) = 2

NoLinesToSplit == \A k \in 1..Len(splitlines(text)) : splitlines(text)[k] = <<>>

\* C9 (as stated): no construction with max_width <= 0 succeeds.
C9_Original == (Bounded /\ Budget <= 0) => pc # "done"

\* C9 (amended): with max_width <= 0 no line is ever produced; the
\* construction fails when the text has a non-empty physical line, and
\* succeeds, with no lines, only for the empty text and for texts that
\* consist of line breaks.
C9_NonPositiveBudget ==
    (Bounded /\ Budget <= 0) =>
        /\ splitted = <<>>
        /\ res = <<>>
        /\ pc = "done" => NoLinesToSplit
        /\ pc = "raised" => ~NoLinesToSplit

\* the error is raised on a physical line that follows an empty one
C9_Witness ==
    /\ Bounded /\ Budget <= 0
    /\ pc = "raised"
    /\ i >= 2

\* C10: no call takes the branch that extends the bound over a Mark; a
\* call that finds a Mark at its bound finds it at the original bound and
\* walks back.
C10_NeverExtends ==
    /\ branch.mark # "extend"
    /\ branch.mark = "walkback" => branch.mark_bound = branch.original_bound

\* a call walked back from a Mark to the start of a word inside the text
C10_Witness ==
    /\ branch.mark = "walkback"
    /\ ~branch.guard
    /\ Len(splitted) >= 1
    /\ rest # <<>>
    /\ rest[1] \in AsciiLetters

====
